---- MODULE Spec2Model ----
(***************************************************************************)
(* The HPACK encoder of src/src/hpack/encoder.rs: the pending size update, *)
(* the encode driver, the serialisation of each indexing outcome, and the  *)
(* prefixed-integer and string codecs.  The table (super::table) and the   *)
(* Huffman codec (super::huffman) are collaborators whose code is not in   *)
(* the file; they are modelled from the specification and from what the    *)
(* tests of encoder.rs pin down.                                           *)
(***************************************************************************)
EXTENDS Integers, Sequences, FiniteSets, TLC

VARIABLES
    table,        \* Encoder.table: [entries (newest first), max_size, capacity]
    size_update,  \* Encoder.size_update: the pending size update
    op,           \* the public operation that produced this state
    staged,       \* arguments of the update_max_size calls since the last encode
    headers,      \* the headers handed to the last encode call
    reps,         \* the representations the last encode call wrote, in order
    dst,          \* the bytes the last encode call wrote to its buffer
    panicked,     \* the process aborted in encode_int (panic!)
    peer,         \* the dynamic table of the decoder that reads the output
    decoded,      \* the headers that decoder reconstructed from the last call
    args          \* the arguments of a codec function called on its own

vars == <<table, size_update, op, staged, headers, reps, dst, panicked,
          peer, decoded, args>>

----------------------------------------------------------------------------
(* Bounds of the model. *)

\* headers per encode call
MaxBatch == 2
\* update_max_size calls between two encode calls
MaxStaged == 3

----------------------------------------------------------------------------
(* Bytes and bit operations (u8 arithmetic of the codecs). *)

RECURSIVE BitOr(_, _)
BitOr(a, b) ==
    IF a = 0 THEN b
    ELSE IF b = 0 THEN a
    ELSE (IF (a % 2 = 1) \/ (b % 2 = 1) THEN 1 ELSE 0)
         + 2 * BitOr(a \div 2, b \div 2)

RECURSIVE Pow2(_)
Pow2(n) == IF n = 0 THEN 1 ELSE 2 * Pow2(n - 1)

\* `x as u8`
AsU8(x) == x % 256

----------------------------------------------------------------------------
(* encode_int and encode_int_one_byte, encoder.rs 190-223. *)

\* the largest value left after the prefix that encode_int accepts
MaxIntRest == 268435455

\* encode_int_one_byte with `<=` for `<`
encode_int_one_byte_inclusive(value, prefix_bits) == value <= Pow2(prefix_bits) - 1

encode_int_one_byte(value, prefix_bits) == value < Pow2(prefix_bits) - 1

\* the `while value >= 128` loop and the final put_u8
RECURSIVE IntTail(_)
IntTail(value) ==
    IF value >= 128
    THEN <<BitOr(128, AsU8(value))>> \o IntTail(value \div 128)
    ELSE <<AsU8(value)>>

\* EncodeIntRest with `value >= 0x0fffffff` for `value > 0x0fffffff`
EncodeIntRestOneLess(rest, low, first_byte) ==
    IF rest >= MaxIntRest
    THEN [panic |-> TRUE, bytes |-> <<>>]
    ELSE [panic |-> FALSE,
          bytes |-> <<BitOr(first_byte, AsU8(low))>> \o IntTail(rest)]

\* The result is [panic, bytes]: the bytes appended to the destination, or
\* panic with nothing written.
\* encode_int after the one-byte case: low is (1 << prefix_bits) - 1 and
\* rest is value after `value -= low`
EncodeIntRest(rest, low, first_byte) ==
    IF rest > MaxIntRest
    THEN [panic |-> TRUE, bytes |-> <<>>]
    ELSE [panic |-> FALSE,
          bytes |-> <<BitOr(first_byte, AsU8(low))>> \o IntTail(rest)]

encode_int(value, prefix_bits, first_byte) ==
    IF encode_int_one_byte(value, prefix_bits)
    THEN [panic |-> FALSE, bytes |-> <<BitOr(first_byte, AsU8(value))>>]
    ELSE EncodeIntRest(value - (Pow2(prefix_bits) - 1), Pow2(prefix_bits) - 1,
                       first_byte)

encode_size_update(val) == encode_int(val, 5, 32)

----------------------------------------------------------------------------
(* huffman::encode, the collaborator of encode_str: the code of RFC 7541   *)
(* Appendix B for the characters the headers below use.  The codes of one  *)
(* length are consecutive, so a symbol's code is the first code of its     *)
(* length plus its position among the symbols of that length.              *)

Syms5 == "012aceiost"
Syms6 == " %-./3456789=A_bdfghlmnpru"
Syms7 == ":BCDEFGHIJKLMNOPQRSTUVWYjkqvwxyz"
Syms8 == "&*,;XZ"

InStr(c, s) == \E i \in 1..Len(s) : SubSeq(s, i, i) = c
PosIn(c, s) == CHOOSE i \in 1..Len(s) : SubSeq(s, i, i) = c

\* <<code, number of bits>> of one character
HuffCode(c) ==
    IF InStr(c, Syms5) THEN <<PosIn(c, Syms5) - 1, 5>>
    ELSE IF InStr(c, Syms6) THEN <<20 + PosIn(c, Syms6) - 1, 6>>
    ELSE IF InStr(c, Syms7) THEN <<92 + PosIn(c, Syms7) - 1, 7>>
    ELSE <<248 + PosIn(c, Syms8) - 1, 8>>

\* the n low bits of code, most significant first
RECURSIVE CodeBits(_, _)
CodeBits(code, n) ==
    IF n = 0 THEN <<>>
    ELSE Append(CodeBits(code \div 2, n - 1), code % 2)

SymBits(hc) == CodeBits(hc[1], hc[2])

RECURSIVE HuffBits(_)
HuffBits(s) ==
    IF Len(s) = 0 THEN <<>>
    ELSE IF Len(s) = 1 THEN SymBits(HuffCode(s))
    ELSE HuffBits(SubSeq(s, 1, Len(s) \div 2))
             \o HuffBits(SubSeq(s, Len(s) \div 2 + 1, Len(s)))

RECURSIVE BitsToByte(_, _, _)
BitsToByte(bits, from, n) ==
    IF n = 0 THEN 0
    ELSE 2 * BitsToByte(bits, from, n - 1) + bits[from + n - 1]

\* the bits in octets, the last octet padded with ones (the EOS prefix)
Octets(bits) == [k \in 1..(Len(bits) \div 8) |-> BitsToByte(bits, 8 * (k - 1) + 1, 8)]
PadOnes(bits) == bits \o [i \in 1..((8 - (Len(bits) % 8)) % 8) |-> 1]
HuffmanOctets(s) == Octets(PadOnes(HuffBits(s)))

\* the strings of the headers below, encoded once
HeaderStrings ==
    {":method", "GET", "PATCH", "foo", "bar", "baz", "content-length", "1234",
     "authorization", "12345", "hello-world-hello-world-hello-zzz",
     "hello-world-hello-world-HELLO-zzz"}
HuffmanOfHeaderStrings == [s \in HeaderStrings |-> HuffmanOctets(s)]

\* the octets huffman::encode(s, dst) appends to dst
huffman_encode(s) ==
    IF s \in HeaderStrings THEN HuffmanOfHeaderStrings[s] ELSE HuffmanOctets(s)

----------------------------------------------------------------------------
(* encode_str, encoder.rs 138-184.  Indices are the code's (from 0); the   *)
(* sequence position of index i is i + 1.                                  *)

\* ShiftOne counting from the front of the payload, not from its end
ShiftOneFromFront(d, idx, head_len, huff_len, i) ==
    [d EXCEPT ![idx + head_len + i + 1] = d[idx + 1 + i + 1]]

\* iteration i of the loop "Shift the header forward":
\* dst[dst_i] = dst[src_i]
ShiftOne(d, idx, head_len, huff_len, i) ==
    [d EXCEPT ![idx + head_len + (huff_len - (i + 1)) + 1] =
                  d[idx + 1 + (huff_len - (i + 1)) + 1]]

\* iterations lo .. hi - 1 of the loop, in their order: the first half, and
\* on the buffer m it leaves the second half
RECURSIVE ShiftRange(_, _, _, _, _, _)
ShiftRest(m, idx, head_len, huff_len, lo, hi) ==
    IF Len(m) = 0 THEN m ELSE ShiftRange(m, idx, head_len, huff_len, lo, hi)

ShiftRange(d, idx, head_len, huff_len, lo, hi) ==
    IF lo >= hi THEN d
    ELSE IF hi = lo + 1 THEN ShiftOne(d, idx, head_len, huff_len, lo)
    ELSE ShiftRest(ShiftRange(d, idx, head_len, huff_len, lo, (lo + hi) \div 2),
                   idx, head_len, huff_len, (lo + hi) \div 2, hi)

\* the loop "Shift the header forward", iterations i .. huff_len - 1
ShiftPayload(d, idx, head_len, huff_len, i) ==
    ShiftRange(d, idx, head_len, huff_len, i, huff_len)

\* the loop "Copy in the head", iterations i .. head_len - 1
RECURSIVE CopyHead(_, _, _, _, _)
CopyHead(d, idx, buf, head_len, i) ==
    IF i >= head_len THEN d
    ELSE CopyHead([d EXCEPT ![idx + i + 1] = buf[i + 1]], idx, buf, head_len, i + 1)

\* the else branch of `if encode_int_one_byte(huff_len, 7)`: head is what
\* encode_int wrote to the 8-octet buf, head_len the Cursor's position
LongHead(d, idx, huff_len, head) ==
    CopyHead(ShiftPayload(d \o SubSeq(head, 2, Len(head)), idx, Len(head), huff_len, 0),
             idx, head \o [i \in 1..(8 - Len(head)) |-> 0], Len(head), 0)

\* the head of the string, once the Huffman octets are in d after index idx
PatchHead(d, idx, huff_len) ==
    IF encode_int_one_byte(huff_len, 7)
    THEN [d EXCEPT ![idx + 1] = BitOr(128, AsU8(huff_len))]
    ELSE LongHead(d, idx, huff_len, encode_int(huff_len, 7, 128).bytes)

\* the placeholder octet at index idx and the Huffman octets after it
HuffmanAfterPlaceholder(d, idx) == PatchHead(d, idx, Len(d) - (idx + 1))

\* dst after encode_str(val, dst)
encode_str(val, d0) ==
    IF Len(val) # 0
    THEN HuffmanAfterPlaceholder(Append(d0, 0) \o huffman_encode(val), Len(d0))
    ELSE Append(d0, 0)

----------------------------------------------------------------------------
(* Headers.  A header is [name, value, sensitive]: name() and              *)
(* value_slice() of either variant, and is_sensitive(), which only a Field *)
(* value can set.                                                          *)

Method(m) == [name |-> ":method", value |-> m, sensitive |-> FALSE]
Field(n, v, s) == [name |-> n, value |-> v, sensitive |-> s]

LargeName  == "hello-world-hello-world-hello-zzz"
LargeValue == "hello-world-hello-world-HELLO-zzz"

\* the headers the callers of the model pass to encode
Headers ==
    { Method("GET"),
      Method("PATCH"),
      Field("foo", "bar", FALSE),
      Field("foo", "bar", TRUE),
      Field("foo", "baz", FALSE),
      Field("bar", "foo", FALSE),
      Field("content-length", "1234", FALSE),
      Field("authorization", "12345", TRUE),
      Field(LargeName, LargeValue, FALSE) }

\* the sizes the callers pass to Encoder::new and to update_max_size
Sizes == {0, 76, 128}
Capacities == {0, 128}

\* header.len(): the octets an entry for the header takes in the table
EntrySize(h) == Len(h.name) + Len(h.value) + 32

----------------------------------------------------------------------------
(* The table.  The static table is RFC 7541 Appendix A; the dynamic table  *)
(* is a sequence of [name, value] entries, the newest first, so the entry  *)
(* at position k has index StaticLen + k.                                  *)

StaticTable ==
    << <<":authority", "">>, <<":method", "GET">>, <<":method", "POST">>,
       <<":path", "/">>, <<":path", "/index.html">>, <<":scheme", "http">>,
       <<":scheme", "https">>, <<":status", "200">>, <<":status", "204">>,
       <<":status", "206">>, <<":status", "304">>, <<":status", "400">>,
       <<":status", "404">>, <<":status", "500">>, <<"accept-charset", "">>,
       <<"accept-encoding", "gzip, deflate">>, <<"accept-language", "">>,
       <<"accept-ranges", "">>, <<"accept", "">>,
       <<"access-control-allow-origin", "">>, <<"age", "">>, <<"allow", "">>,
       <<"authorization", "">>, <<"cache-control", "">>,
       <<"content-disposition", "">>, <<"content-encoding", "">>,
       <<"content-language", "">>, <<"content-length", "">>,
       <<"content-location", "">>, <<"content-range", "">>,
       <<"content-type", "">>, <<"cookie", "">>, <<"date", "">>, <<"etag", "">>,
       <<"expect", "">>, <<"expires", "">>, <<"from", "">>, <<"host", "">>,
       <<"if-match", "">>, <<"if-modified-since", "">>, <<"if-none-match", "">>,
       <<"if-range", "">>, <<"if-unmodified-since", "">>, <<"last-modified", "">>,
       <<"link", "">>, <<"location", "">>, <<"max-forwards", "">>,
       <<"proxy-authenticate", "">>, <<"proxy-authorization", "">>,
       <<"range", "">>, <<"referer", "">>, <<"refresh", "">>,
       <<"retry-after", "">>, <<"server", "">>, <<"set-cookie", "">>,
       <<"strict-transport-security", "">>, <<"transfer-encoding", "">>,
       <<"user-agent", "">>, <<"vary", "">>, <<"via", "">>,
       <<"www-authenticate", "">> >>

StaticLen == 61

\* the header names whose values are never indexed
NeverIndexed == {"content-length", "date", "authorization", "set-cookie"}

Entry(h) == [name |-> h.name, value |-> h.value]

StaticEntries ==
    [i \in 1..StaticLen |-> [name |-> StaticTable[i][1], value |-> StaticTable[i][2]]]

\* the composite table: indices 1..61 static, 62.. dynamic
Composite(entries) == StaticEntries \o entries

Min(S) == CHOOSE x \in S : \A y \in S : x <= y

MinOrZero(S) == IF S = {} THEN 0 ELSE Min(S)

Matches(c, e) == {i \in DOMAIN c : c[i] = e}
NameMatches(c, n) == {i \in DOMAIN c : c[i].name = n}

\* the smallest index of a full (name, value) match, 0 when there is none
FullIndex(entries, h) == MinOrZero(Matches(Composite(entries), Entry(h)))

\* the smallest index of an entry with the header's name, 0 when there is none
NameIndex(entries, h) == MinOrZero(NameMatches(Composite(entries), h.name))

RECURSIVE SumSizes(_)
SumSizes(entries) ==
    IF entries = <<>> THEN 0
    ELSE EntrySize(Head(entries)) + SumSizes(Tail(entries))

\* Table::size()
Size(t) == SumSizes(t.entries)

\* evict the oldest entries until the rest takes at most room octets
RECURSIVE EvictTo(_, _)
EvictTo(entries, room) ==
    IF entries = <<>> \/ SumSizes(entries) <= room THEN entries
    ELSE EvictTo(SubSeq(entries, 1, Len(entries) - 1), room)

\* Table::new(max_size, capacity)
TableNew(max_size, capacity) ==
    [entries |-> <<>>, max_size |-> max_size, capacity |-> capacity]

\* Resize without the eviction: the maximum changes, the entries stay
ResizeKeepsEntries(t, new_max) == [t EXCEPT !.max_size = new_max]

\* Table::resize(new_max)
Resize(t, new_max) ==
    [t EXCEPT !.max_size = new_max, !.entries = EvictTo(t.entries, new_max)]

\* Insert with the new entry behind the others, where the oldest is
InsertBehind(t, h) ==
    [t EXCEPT !.entries =
        EvictTo(t.entries, t.max_size - EntrySize(h)) \o <<Entry(h)>>]

\* the insertion of Table::index: make room, then the new entry is the newest
Insert(t, h) ==
    [t EXCEPT !.entries =
        <<Entry(h)>> \o EvictTo(t.entries, t.max_size - EntrySize(h))]

\* "Don't index large headers": the entry is not inserted
TooLarge(t, h) == EntrySize(h) * 4 > t.max_size * 3

\* an Index outcome, with the table it leaves
Outcome(kind, idx, h, t) == [kind |-> kind, idx |-> idx, header |-> h, table |-> t]

\* IndexWith with the full match tried before the never-indexed names
IndexWithFullMatchFirst(t, h, full, name) ==
    IF h.sensitive
    THEN IF name # 0 THEN Outcome("Name", name, h, t)
         ELSE Outcome("NotIndexed", 0, h, t)
    ELSE IF full # 0 THEN Outcome("Indexed", full, h, t)
    ELSE IF h.name \in NeverIndexed
    THEN IF name # 0 THEN Outcome("Name", name, h, t)
         ELSE Outcome("NotIndexed", 0, h, t)
    ELSE IF name # 0
    THEN IF TooLarge(t, h) THEN Outcome("Name", name, h, t)
         ELSE Outcome("InsertedValue", name, h, Insert(t, h))
    ELSE IF TooLarge(t, h) THEN Outcome("NotIndexed", 0, h, t)
         ELSE Outcome("Inserted", 0, h, Insert(t, h))

\* IndexWith with the name looked up after the insertion
IndexWithNameAfterInsert(t, h, full, name) ==
    IF h.sensitive \/ h.name \in NeverIndexed
    THEN IF name # 0 THEN Outcome("Name", name, h, t)
         ELSE Outcome("NotIndexed", 0, h, t)
    ELSE IF full # 0 THEN Outcome("Indexed", full, h, t)
    ELSE IF name # 0
    THEN IF TooLarge(t, h) THEN Outcome("Name", name, h, t)
         ELSE Outcome("InsertedValue", NameIndex(Insert(t, h).entries, h), h,
                      Insert(t, h))
    ELSE IF TooLarge(t, h) THEN Outcome("NotIndexed", 0, h, t)
         ELSE Outcome("Inserted", 0, h, Insert(t, h))

\* IndexWith without the check of is_sensitive()
IndexWithSensitiveIndexed(t, h, full, name) ==
    IF h.name \in NeverIndexed
    THEN IF name # 0 THEN Outcome("Name", name, h, t)
         ELSE Outcome("NotIndexed", 0, h, t)
    ELSE IF full # 0 THEN Outcome("Name", full, h, t)
    ELSE IF name # 0
    THEN IF TooLarge(t, h) THEN Outcome("Name", name, h, t)
         ELSE Outcome("Name", name, h, Insert(t, h))
    ELSE IF TooLarge(t, h) THEN Outcome("NotIndexed", 0, h, t)
         ELSE Outcome("NotIndexed", 0, h, Insert(t, h))

\* Table::index(header), with the indices of the full and the name match
IndexWith(t, h, full, name) ==
    IF h.sensitive \/ h.name \in NeverIndexed
    THEN IF name # 0 THEN Outcome("Name", name, h, t)
         ELSE Outcome("NotIndexed", 0, h, t)
    ELSE IF full # 0 THEN Outcome("Indexed", full, h, t)
    ELSE IF name # 0
    THEN IF TooLarge(t, h) THEN Outcome("Name", name, h, t)
         ELSE Outcome("InsertedValue", name, h, Insert(t, h))
    ELSE IF TooLarge(t, h) THEN Outcome("NotIndexed", 0, h, t)
         ELSE Outcome("Inserted", 0, h, Insert(t, h))

\* Table::index(header)
Index(t, h) == IndexWith(t, h, FullIndex(t.entries, h), NameIndex(t.entries, h))

----------------------------------------------------------------------------
(* Encoder, encoder.rs 7-136. *)

\* Option<SizeUpdate>: None, Some(One(a)), Some(Two(a, b)) with a the min
NoUpdate  == [tag |-> "None", a |-> 0, b |-> 0]
One(v)    == [tag |-> "One", a |-> v, b |-> 0]
Two(x, y) == [tag |-> "Two", a |-> x, b |-> y]

\* what a call wrote: the representation, as the peer reads it
Rep(kind, idx, name, value, sensitive) ==
    [kind |-> kind, idx |-> idx, name |-> name, value |-> value,
     sensitive |-> sensitive]
SizeUpdateRep(v) == Rep("SizeUpdate", v, "", "", FALSE)

\* NextSizeUpdate that keeps One(val) where Two(old, val) is due
NextSizeUpdateForgetsMin(pending, max_size, val) ==
    CASE pending.tag = "One" -> One(val)
      [] pending.tag = "Two" ->
            IF val < pending.a THEN One(val) ELSE Two(pending.a, val)
      [] OTHER ->
            IF val # max_size THEN One(val) ELSE NoUpdate

\* NextSizeUpdate with `old >= self.table.max_size()` for `old >`
NextSizeUpdateGrowing(pending, max_size, val) ==
    CASE pending.tag = "One" ->
            IF val > pending.a
            THEN IF pending.a >= max_size THEN One(val) ELSE Two(pending.a, val)
            ELSE One(val)
      [] pending.tag = "Two" ->
            IF val < pending.a THEN One(val) ELSE Two(pending.a, val)
      [] OTHER ->
            IF val # max_size THEN One(val) ELSE NoUpdate

\* the new pending value of update_max_size(val)
NextSizeUpdate(pending, max_size, val) ==
    CASE pending.tag = "One" ->
            IF val > pending.a
            THEN IF pending.a > max_size THEN One(val) ELSE Two(pending.a, val)
            ELSE One(val)
      [] pending.tag = "Two" ->
            IF val < pending.a THEN One(val) ELSE Two(pending.a, val)
      [] OTHER ->
            IF val # max_size THEN One(val) ELSE NoUpdate

\* A step of encode is [table, dst, reps, panic]: the table, the bytes and
\* the representations written so far, and whether the call panicked.
Step(t, d, rs, panic) == [table |-> t, dst |-> d, reps |-> rs, panic |-> panic]

\* put an encoded integer, or panic
PutInt(st, e) ==
    IF st.panic \/ e.panic THEN [st EXCEPT !.panic = TRUE]
    ELSE [st EXCEPT !.dst = st.dst \o e.bytes]

\* FlushSizeUpdate with the one resize to max where Two(min, max) needs two
FlushResizeToMaxOnly(t, pending) ==
    CASE pending.tag = "One" ->
            PutInt(Step(Resize(t, pending.a), <<>>,
                        <<SizeUpdateRep(pending.a)>>, FALSE),
                   encode_size_update(pending.a))
      [] pending.tag = "Two" ->
            PutInt(PutInt(Step(Resize(t, pending.b), <<>>,
                               <<SizeUpdateRep(pending.a), SizeUpdateRep(pending.b)>>,
                               FALSE),
                          encode_size_update(pending.a)),
                   encode_size_update(pending.b))
      [] OTHER -> Step(t, <<>>, <<>>, FALSE)

\* FlushSizeUpdate with the two frames of Two(min, max) in the other order
FlushMaxFirst(t, pending) ==
    CASE pending.tag = "One" ->
            PutInt(Step(Resize(t, pending.a), <<>>,
                        <<SizeUpdateRep(pending.a)>>, FALSE),
                   encode_size_update(pending.a))
      [] pending.tag = "Two" ->
            PutInt(PutInt(Step(Resize(Resize(t, pending.a), pending.b), <<>>,
                               <<SizeUpdateRep(pending.b), SizeUpdateRep(pending.a)>>,
                               FALSE),
                          encode_size_update(pending.b)),
                   encode_size_update(pending.a))
      [] OTHER -> Step(t, <<>>, <<>>, FALSE)

\* FlushSizeUpdate with one frame, for max, where Two(min, max) needs two
FlushLastFrameOnly(t, pending) ==
    CASE pending.tag = "One" ->
            PutInt(Step(Resize(t, pending.a), <<>>,
                        <<SizeUpdateRep(pending.a)>>, FALSE),
                   encode_size_update(pending.a))
      [] pending.tag = "Two" ->
            PutInt(Step(Resize(Resize(t, pending.a), pending.b), <<>>,
                        <<SizeUpdateRep(pending.b)>>, FALSE),
                   encode_size_update(pending.b))
      [] OTHER -> Step(t, <<>>, <<>>, FALSE)

\* FlushSizeUpdate with resize(max) before resize(min)
FlushResizeMaxFirst(t, pending) ==
    CASE pending.tag = "One" ->
            PutInt(Step(Resize(t, pending.a), <<>>,
                        <<SizeUpdateRep(pending.a)>>, FALSE),
                   encode_size_update(pending.a))
      [] pending.tag = "Two" ->
            PutInt(PutInt(Step(Resize(Resize(t, pending.b), pending.a), <<>>,
                               <<SizeUpdateRep(pending.a), SizeUpdateRep(pending.b)>>,
                               FALSE),
                          encode_size_update(pending.a)),
                   encode_size_update(pending.b))
      [] OTHER -> Step(t, <<>>, <<>>, FALSE)

\* FlushSizeUpdate with every size cut down to the table's capacity
FlushWithinCapacity(t, pending) ==
    CASE pending.tag = "One" ->
            PutInt(Step(Resize(t, Min({pending.a, t.capacity})), <<>>,
                        <<SizeUpdateRep(Min({pending.a, t.capacity}))>>, FALSE),
                   encode_size_update(Min({pending.a, t.capacity})))
      [] pending.tag = "Two" ->
            PutInt(PutInt(Step(Resize(Resize(t, Min({pending.a, t.capacity})),
                                      Min({pending.b, t.capacity})), <<>>,
                               <<SizeUpdateRep(Min({pending.a, t.capacity})),
                                 SizeUpdateRep(Min({pending.b, t.capacity}))>>,
                               FALSE),
                          encode_size_update(Min({pending.a, t.capacity}))),
                   encode_size_update(Min({pending.b, t.capacity})))
      [] OTHER -> Step(t, <<>>, <<>>, FALSE)

\* the match on self.size_update.take() of encode
FlushSizeUpdate(t, pending) ==
    CASE pending.tag = "One" ->
            PutInt(Step(Resize(t, pending.a), <<>>,
                        <<SizeUpdateRep(pending.a)>>, FALSE),
                   encode_size_update(pending.a))
      [] pending.tag = "Two" ->
            PutInt(PutInt(Step(Resize(Resize(t, pending.a), pending.b), <<>>,
                               <<SizeUpdateRep(pending.a), SizeUpdateRep(pending.b)>>,
                               FALSE),
                          encode_size_update(pending.a)),
                   encode_size_update(pending.b))
      [] OTHER -> Step(t, <<>>, <<>>, FALSE)

\* dst.put_u8(byte)
PutU8(st, byte) == IF st.panic THEN st ELSE [st EXCEPT !.dst = Append(st.dst, byte)]

\* encode_str(val, dst)
PutStr(st, val) ==
    IF st.panic THEN st ELSE [st EXCEPT !.dst = encode_str(val, st.dst)]

\* the representation r is complete on the wire
Wrote(st, r) ==
    IF st.panic THEN st ELSE [st EXCEPT !.reps = Append(st.reps, r)]

\* assert!(!header.is_sensitive())
AssertNotSensitive(st, h) == IF h.sensitive THEN [st EXCEPT !.panic = TRUE] ELSE st

\* EmitIndexed with the 4-bit prefix of the literal forms
EmitIndexedShortPrefix(st, idx, h) ==
    Wrote(PutInt(AssertNotSensitive(st, h), encode_int(idx, 4, 128)),
          Rep("Indexed", idx, "", "", FALSE))

\* EmitName with the 7-bit prefix of the indexed form
EmitNameSevenBit(st, idx, h) ==
    Wrote(PutStr(PutInt(st, encode_int(idx, 7, IF h.sensitive THEN 16 ELSE 0)),
                 h.value),
          Rep("Name", idx, "", h.value, h.sensitive))

\* EmitName without the branch on is_sensitive()
EmitNameUnflagged(st, idx, h) ==
    Wrote(PutStr(PutInt(st, encode_int(idx, 4, 0)), h.value),
          Rep("Name", idx, "", h.value, FALSE))

\* the arms of the match of encode_header; st holds the table after index()
EmitIndexed(st, idx, h) ==
    Wrote(PutInt(AssertNotSensitive(st, h), encode_int(idx, 7, 128)),
          Rep("Indexed", idx, "", "", FALSE))

EmitName(st, idx, h) ==
    Wrote(PutStr(PutInt(st, encode_int(idx, 4, IF h.sensitive THEN 16 ELSE 0)),
                 h.value),
          Rep("Name", idx, "", h.value, h.sensitive))

EmitInserted(st, h) ==
    Wrote(PutStr(PutStr(PutU8(AssertNotSensitive(st, h), 64), h.name), h.value),
          Rep("Inserted", 0, h.name, h.value, FALSE))

EmitInsertedValue(st, idx, h) ==
    Wrote(PutStr(PutInt(AssertNotSensitive(st, h), encode_int(idx, 6, 64)), h.value),
          Rep("InsertedValue", idx, "", h.value, FALSE))

\* EmitNotIndexed with the branches on is_sensitive() exchanged
EmitNotIndexedExchanged(st, h) ==
    Wrote(PutStr(PutStr(PutU8(st, IF h.sensitive THEN 0 ELSE 16), h.name), h.value),
          Rep("NotIndexed", 0, h.name, h.value, h.sensitive))

EmitNotIndexed(st, h) ==
    Wrote(PutStr(PutStr(PutU8(st, IF h.sensitive THEN 16 ELSE 0), h.name), h.value),
          Rep("NotIndexed", 0, h.name, h.value, h.sensitive))

\* the match of encode_header on the outcome o of self.table.index(header)
Emit(st, o) ==
    CASE o.kind = "Indexed"       -> EmitIndexed(st, o.idx, o.header)
      [] o.kind = "Name"          -> EmitName(st, o.idx, o.header)
      [] o.kind = "Inserted"      -> EmitInserted(st, o.header)
      [] o.kind = "InsertedValue" -> EmitInsertedValue(st, o.idx, o.header)
      [] OTHER                    -> EmitNotIndexed(st, o.header)

WithTable(st, o) == Emit([st EXCEPT !.table = o.table], o)

\* encode_header(header, dst), from the step st
encode_header(st, h) == WithTable(st, Index(st.table, h))

\* the loop `for h in headers` of encode, which a panic ends
RECURSIVE EncodeHeaders(_, _)
EncodeHeaders(st, hs) ==
    IF hs = <<>> \/ st.panic THEN st
    ELSE EncodeHeaders(encode_header(st, Head(hs)), Tail(hs))

\* encode(headers, dst) into an empty dst
EncodeCall(t, pending, hs) == EncodeHeaders(FlushSizeUpdate(t, pending), hs)

----------------------------------------------------------------------------
(* The peer: a decoder of RFC 7541 that reads what encode wrote.  Its      *)
(* table is [entries, max_size]; it starts with the encoder's max_size.    *)

DecodeError == [name |-> "<error>", value |-> "<error>"]

PeerLookup(entries, i) ==
    IF i \in 1..(StaticLen + Len(entries)) THEN Composite(entries)[i]
    ELSE DecodeError

\* RFC 7541 4.4: evict until the entry fits; an entry larger than the
\* maximum empties the table and is not added
PeerInsert(p, e) ==
    IF EntrySize(e) > p.max_size THEN [p EXCEPT !.entries = <<>>]
    ELSE [p EXCEPT !.entries = <<e>> \o EvictTo(p.entries, p.max_size - EntrySize(e))]

\* the peer table after one representation
PeerTable(p, r) ==
    CASE r.kind = "SizeUpdate" ->
            [entries |-> EvictTo(p.entries, r.idx), max_size |-> r.idx]
      [] r.kind = "Inserted" ->
            PeerInsert(p, [name |-> r.name, value |-> r.value])
      [] r.kind = "InsertedValue" ->
            PeerInsert(p, [name |-> PeerLookup(p.entries, r.idx).name,
                           value |-> r.value])
      [] OTHER -> p

\* the header one representation stands for (none for a size update)
PeerHeader(p, r) ==
    CASE r.kind = "SizeUpdate" -> <<>>
      [] r.kind = "Indexed" ->
            <<Field(PeerLookup(p.entries, r.idx).name,
                    PeerLookup(p.entries, r.idx).value, FALSE)>>
      [] r.kind \in {"InsertedValue", "Name"} ->
            <<Field(PeerLookup(p.entries, r.idx).name, r.value, r.sensitive)>>
      [] OTHER -> <<Field(r.name, r.value, r.sensitive)>>

\* the peer after a block: [peer, decoded]
RECURSIVE PeerDecode(_, _, _)
PeerDecode(p, out, rs) ==
    IF rs = <<>> THEN [peer |-> p, decoded |-> out]
    ELSE PeerDecode(PeerTable(p, Head(rs)), out \o PeerHeader(p, Head(rs)), Tail(rs))

----------------------------------------------------------------------------
(* The state machine: the public operations of Encoder. *)

\* The header lists handed to encode: every single header, and every list
\* of up to MaxBatch headers that play on one name of the dynamic table.
BatchHeaders ==
    { Field("foo", "bar", FALSE), Field("foo", "bar", TRUE),
      Field("foo", "baz", FALSE) }
Batches ==
    {<<>>} \cup {<<h>> : h \in Headers}
           \cup UNION {[1..n -> BatchHeaders] : n \in 2..MaxBatch}

\* Encoder::new(max_size, capacity); Encoder::default() is new(4096, 0)
New(max_size, capacity) ==
    /\ table = TableNew(max_size, capacity)
    /\ size_update = NoUpdate
    /\ op = "new"
    /\ staged = <<>>
    /\ headers = <<>>
    /\ reps = <<>>
    /\ dst = <<>>
    /\ panicked = FALSE
    /\ peer = [entries |-> <<>>, max_size |-> max_size]
    /\ decoded = <<>>
    /\ args = <<>>

Init == \E m \in Sizes, c \in Capacities : New(m, c)

\* update_max_size that resizes the table at once
UpdateMaxSizeAtOnce(val) ==
    /\ ~panicked
    /\ Len(staged) < MaxStaged
    /\ size_update' = NextSizeUpdate(size_update, table.max_size, val)
    /\ table' = Resize(table, val)
    /\ op' = "update_max_size"
    /\ staged' = Append(staged, val)
    /\ headers' = <<>>
    /\ reps' = <<>>
    /\ dst' = <<>>
    /\ decoded' = <<>>
    /\ UNCHANGED <<panicked, peer, args>>

\* update_max_size(val)
UpdateMaxSize(val) ==
    /\ ~panicked
    /\ Len(staged) < MaxStaged
    /\ size_update' = NextSizeUpdate(size_update, table.max_size, val)
    /\ op' = "update_max_size"
    /\ staged' = Append(staged, val)
    /\ headers' = <<>>
    /\ reps' = <<>>
    /\ dst' = <<>>
    /\ decoded' = <<>>
    /\ UNCHANGED <<table, panicked, peer, args>>

\* the peer reads the block the call r wrote, unless the process aborted
PeerReads(r, d) ==
    /\ peer' = IF r.panic THEN peer ELSE d.peer
    /\ decoded' = IF r.panic THEN <<>> ELSE d.decoded

\* the state encode leaves, r being the result of the call
Encoded(r) ==
    /\ table' = r.table
    /\ size_update' = NoUpdate
    /\ panicked' = r.panic
    /\ reps' = r.reps
    /\ dst' = r.dst
    /\ PeerReads(r, PeerDecode(peer, <<>>, r.reps))

\* encode(hs, dst), and the peer reading dst
Encode(hs) ==
    /\ ~panicked
    /\ Encoded(EncodeCall(table, size_update, hs))
    /\ op' = "encode"
    /\ staged' = <<>>
    /\ headers' = hs
    /\ UNCHANGED args

Next ==
    \/ \E val \in Sizes : UpdateMaxSize(val)
    \/ \E hs \in Batches : Encode(hs)

Spec == Init /\ [][Next]_vars

----------------------------------------------------------------------------
(* The codecs on their own: encode_int and encode_str are called with      *)
(* arguments drawn from the sets below, on a destination that already      *)
(* holds some octets.                                                      *)

\* the prefix widths encode_header, encode_size_update and encode_str use
PrefixBits == {4, 5, 6, 7}

\* the octets whose low n bits are zero
Bases(n) == {b * Pow2(n) : b \in 0..(Pow2(8 - n) - 1)}

\* values about the ends of the prefixes, of the 7-bit groups and of the
\* accepted range
IntValues ==
    {0, 1, 2, 13, 14, 15, 16, 30, 31, 32, 62, 63, 64, 100, 126, 127, 128, 142,
     143, 254, 255, 256, 1337, 4096, 16383, 16384, 16510, 16511, 2097151,
     2097152, 2097279, 268435454, 268435455, 268435456, 268435470, 268435471,
     268435486, 268435487, 268435518, 268435519, 268435582, 268435583,
     268435584, 1073741824, 2147483647}

\* what the destination holds before the call
Destinations == {<<>>, <<0>>, <<130, 255, 7>>}

RECURSIVE Repeat(_, _)
Repeat(s, n) == IF n = 0 THEN "" ELSE s \o Repeat(s, n - 1)

\* strings whose Huffman octets are fewer than 127, 127, more, and 255 and
\* more; the symbols of the long ones have 8-bit codes, one octet each, all
\* different within a period
Strings ==
    {"", "a", "foo", "1234", "no-cache", "custom-key", "www.example.com",
     Repeat("&*,;XZ", 21), Repeat("&*,;XZ", 21) \o "&", Repeat("&*,;XZ", 22),
     Repeat("a0c1e2i", 29), Repeat("&*,;XZ", 42) \o "&*,", Repeat("&*,;XZ", 43)}

\* the state before a call of the function f on the destination d
Call(f, a, d) ==
    /\ table = TableNew(0, 0)
    /\ size_update = NoUpdate
    /\ op = f
    /\ staged = <<>>
    /\ headers = <<>>
    /\ reps = <<>>
    /\ dst = d
    /\ panicked = FALSE
    /\ peer = [entries |-> <<>>, max_size |-> 0]
    /\ decoded = <<>>
    /\ args = a

CodecInit ==
    \/ \E n \in PrefixBits, v \in IntValues, d \in Destinations :
           \E b \in Bases(n) : Call("call encode_int", <<v, n, b>>, d)
    \/ \E s \in Strings, d \in Destinations :
           Call("call encode_str", <<s>>, d)

\* the state after encode_int, e being what it did
EncodedInt(e) ==
    /\ panicked' = e.panic
    /\ dst' = dst \o e.bytes

\* encode_int(value, prefix_bits, first_byte, dst)
EncodeInt ==
    /\ op = "call encode_int"
    /\ EncodedInt(encode_int(args[1], args[2], args[3]))
    /\ op' = "encode_int"
    /\ UNCHANGED <<table, size_update, staged, headers, reps, peer, decoded, args>>

\* encode_str(val, dst)
EncodeStr ==
    /\ op = "call encode_str"
    /\ dst' = encode_str(args[1], dst)
    /\ op' = "encode_str"
    /\ UNCHANGED <<table, size_update, staged, headers, reps, panicked, peer,
                   decoded, args>>

CodecNext == EncodeInt \/ EncodeStr

CodecSpec == CodecInit /\ [][CodecNext]_vars

----------------------------------------------------------------------------
(* Properties. *)

Last(q) == q[Len(q)]

\* the table as the peer sees it
Shared(t) == [entries |-> t.entries, max_size |-> t.max_size]

\* encode_header on its own, from the table t and an empty buffer
Alone(t, h) == encode_header(Step(t, <<>>, <<>>, FALSE), h)

FooBar == Field("foo", "bar", FALSE)
FooBarSensitive == Field("foo", "bar", TRUE)
FooBaz == Field("foo", "baz", FALSE)
Large == Field(LargeName, LargeValue, FALSE)

\* C1: in every reachable state the sizes of the entries of the dynamic
\* table (name length + value length + 32 each) add up to at most
\* table.max_size().
C1_SizeWithinMax == Size(table) <= table.max_size

\* C1 witness: an encode has filled the table to its maximum exactly.
C1_Witness ==
    /\ op = "encode"
    /\ Len(table.entries) = 2
    /\ Size(table) = table.max_size

\* C2: the peer that reads every block reconstructs the headers of each
\* encode call, in order, and its dynamic table (entries, order, maximum
\* size) is the encoder's after every operation.
C2_RoundTrip ==
    ~panicked =>
        /\ peer = Shared(table)
        /\ op = "encode" => decoded = headers

\* C2 witness: an encode call whose block resized the table twice and then
\* inserted an entry with a name reference, and the peer followed.
C2_Witness ==
    /\ op = "encode"
    /\ Len(reps) = 3
    /\ reps[1].kind = "SizeUpdate" /\ reps[2].kind = "SizeUpdate"
    /\ reps[3].kind = "InsertedValue"
    /\ decoded = headers
    /\ peer = Shared(table) /\ Len(peer.entries) > 0

\* the lists of headers a sensitive header is encoded after
Prefixes == {<<>>} \cup {<<g>> : g \in Headers}

\* the call r encoded hs: with a sensitive header after hs the table is r's
SensitiveAfter(hs, r) ==
    \A h \in Headers :
        h.sensitive =>
            EncodeCall(table, size_update, Append(hs, h)).table = r.table

\* C3: encoding a sensitive header leaves the table (entries, order, size,
\* max_size) as it was, in every reachable state, and a list of headers
\* followed by a sensitive header leaves the table the list alone leaves.
C3_SensitiveLeavesTable ==
    /\ \A h \in Headers : h.sensitive => Alone(table, h).table = table
    /\ \A hs \in Prefixes :
           SensitiveAfter(hs, EncodeCall(table, size_update, hs))

\* C3 witness: a sensitive header was encoded after a header that was
\* inserted, and the table holds the inserted entry alone.
C3_Witness ==
    /\ op = "encode"
    /\ headers = <<FooBar, FooBarSensitive>>
    /\ reps[1].kind = "Inserted"
    /\ table.entries = <<Entry(FooBar)>>

\* C4: a sensitive header is written only as Name(i, sensitive), first octet
\* 0001xxxx, when its name is in the table, and else as NotIndexed(sensitive),
\* first octet 0x10; no assertion of encode_header fails.
C4_SensitiveForms ==
    /\ ~panicked
    /\ \A h \in Headers :
           h.sensitive =>
               /\ ~Alone(table, h).panic
               /\ Len(Alone(table, h).reps) = 1
               /\ Alone(table, h).reps[1].sensitive
               /\ IF NameIndex(table.entries, h) # 0
                  THEN /\ Alone(table, h).reps[1].kind = "Name"
                       /\ Alone(table, h).reps[1].idx = NameIndex(table.entries, h)
                       /\ Alone(table, h).dst[1] \div 16 = 1
                  ELSE /\ Alone(table, h).reps[1].kind = "NotIndexed"
                       /\ Alone(table, h).dst[1] = 16

\* C4 witness: the sensitive header was encoded when its name and value were
\* in the dynamic table, put there by the same header without the flag.
C4_Witness ==
    /\ op = "encode"
    /\ headers = <<FooBarSensitive>>
    /\ FullIndex(table.entries, FooBarSensitive) = 62
    /\ reps = <<Rep("Name", 62, "", "bar", TRUE)>>
    /\ dst[1] = 31

\* the coalescing table of update_max_size, row by row
CoalescingTable(P, current, v) ==
    CASE P.tag = "None" /\ v = current -> NoUpdate
      [] P.tag = "None" /\ v # current -> One(v)
      [] P.tag = "One" /\ v <= P.a -> One(v)
      [] P.tag = "One" /\ v > P.a /\ P.a > current -> One(v)
      [] P.tag = "One" /\ v > P.a /\ P.a <= current -> Two(P.a, v)
      [] P.tag = "Two" /\ v < P.a -> One(v)
      [] P.tag = "Two" /\ v >= P.a -> Two(P.a, v)

RECURSIVE Coalesced(_, _, _)
Coalesced(P, current, vs) ==
    IF vs = <<>> THEN P
    ELSE Coalesced(CoalescingTable(P, current, Head(vs)), current, Tail(vs))

\* C5: the pending value is what the coalescing table gives, applied to each
\* update_max_size call since the last encode in turn, starting from None,
\* with current = table.max_size().
C5_Coalescing == size_update = Coalesced(NoUpdate, table.max_size, staged)

\* C5 witness: three calls went through One(128), One(0) and Two(0, 76) while
\* the table's max_size was 76.
C5_Witness ==
    /\ op = "update_max_size"
    /\ staged = <<128, 0, 76>>
    /\ table.max_size = 76
    /\ size_update = Two(0, 76)

\* C6: update_max_size leaves the table (max_size, entries, len, size) as it
\* was; the table changes in encode only.
C6_UpdateOnlyStages ==
    [][ /\ op' = "update_max_size" => table' = table
        /\ table' # table => op' = "encode" ]_vars

\* C6 witness: a size below what the entries take is staged, and the entries
\* are still in the table.
C6_Witness ==
    /\ op = "update_max_size"
    /\ size_update.tag = "One"
    /\ size_update.a < Size(table)
    /\ Len(table.entries) = 2

\* RFC 7541 5.1: the integer with an n-bit prefix that starts at b[pos]
RECURSIVE DecodeIntTail(_, _, _)
DecodeIntTail(b, pos, weight) ==
    IF pos > Len(b) THEN [value |-> -1, next |-> pos]
    ELSE IF b[pos] >= 128
    THEN [value |-> (b[pos] % 128) * weight
                        + DecodeIntTail(b, pos + 1, weight * 128).value,
          next |-> DecodeIntTail(b, pos + 1, weight * 128).next]
    ELSE [value |-> b[pos] * weight, next |-> pos + 1]

DecodeInt(b, pos, n) ==
    IF b[pos] % Pow2(n) < Pow2(n) - 1
    THEN [value |-> b[pos] % Pow2(n), next |-> pos + 1]
    ELSE [value |-> Pow2(n) - 1 + DecodeIntTail(b, pos + 1, 1).value,
          next |-> DecodeIntTail(b, pos + 1, 1).next]

\* the octet at b[pos] starts a size update: 001xxxxx
IsSizeUpdateOctet(b, pos) == pos <= Len(b) /\ b[pos] \div 32 = 1

\* b holds, from pos, the size-update frames for the values vs, and then no
\* further size-update frame
RECURSIVE FramesThenHeaders(_, _, _)
FramesThenHeaders(b, pos, vs) ==
    IF vs = <<>> THEN ~IsSizeUpdateOctet(b, pos)
    ELSE /\ IsSizeUpdateOctet(b, pos)
         /\ DecodeInt(b, pos, 5).value = Head(vs)
         /\ FramesThenHeaders(b, DecodeInt(b, pos, 5).next, Tail(vs))

\* the values the pending update P puts on the wire
FrameValues(P) ==
    CASE P.tag = "One" -> <<P.a>>
      [] P.tag = "Two" -> <<P.a, P.b>>
      [] OTHER -> <<>>

\* the representation r is one of header h
Carries(r, h) ==
    /\ r.kind \in {"Indexed", "Name", "Inserted", "InsertedValue", "NotIndexed"}
    /\ r.kind # "Indexed" => r.value = h.value /\ r.sensitive = h.sensitive
    /\ r.kind \in {"Inserted", "NotIndexed"} => r.name = h.name

\* rs is vs as size updates, then one representation for each header of hs
InOrder(rs, vs, hs) ==
    /\ Len(rs) = Len(vs) + Len(hs)
    /\ \A i \in 1..Len(vs) : rs[i] = SizeUpdateRep(vs[i])
    /\ \A i \in 1..Len(hs) : Carries(rs[Len(vs) + i], hs[i])

\* C7: every encode call writes the size-update frames of the pending update
\* first (none for None, v for One(v), min and then max for Two(min, max),
\* each a 5-bit-prefix integer on 0x20) and then one representation for
\* each header, in order; pending is None when it returns.
C7_OutputOrder ==
    [][ (op' = "encode" /\ ~panicked') =>
            /\ InOrder(reps', FrameValues(size_update), headers')
            /\ FramesThenHeaders(dst', 1, FrameValues(size_update))
            /\ size_update' = NoUpdate ]_vars

\* C7 witness: a call with pending Two(0, 76) and two headers wrote the frame
\* for 0, the frame for 76 and then the two headers.
C7_Witness ==
    /\ op = "encode"
    /\ Len(headers) = 2
    /\ Len(reps) = 4
    /\ reps[1] = SizeUpdateRep(0) /\ reps[2] = SizeUpdateRep(76)
    /\ SubSeq(dst, 1, 4) = <<32, 63, 45, 64>>

\* C8: after one or more update_max_size calls, the next encode leaves
\* table.max_size() at the value of the last of them.
C8_LastStagedWins ==
    [][ (op' = "encode" /\ ~panicked' /\ staged # <<>>) =>
            table'.max_size = Last(staged) ]_vars

\* C8 witness: an encode flushed two frames, and max_size is the second.
C8_Witness ==
    /\ op = "encode"
    /\ Len(reps) >= 2
    /\ reps[1].kind = "SizeUpdate" /\ reps[2].kind = "SizeUpdate"
    /\ reps[1].idx < reps[2].idx
    /\ table.max_size = reps[2].idx

\* C9 as claimed: table.max_size() is at most the capacity given at
\* construction.
C9_MaxWithinCapacity == table.max_size <= table.capacity

\* C9 as amended: table.max_size() is the max_size given at construction until
\* an encode flushes staged updates, and then the last value staged; the
\* capacity given at construction does not change and does not bound it.
C9_MaxIsWhatWasAsked ==
    [][ /\ table'.capacity = table.capacity
        /\ table'.max_size # table.max_size =>
               (op' = "encode" /\ staged # <<>> /\ table'.max_size = Last(staged))
      ]_vars

\* C9 witness: an encode raised max_size above the capacity.
C9_Witness ==
    /\ op = "encode"
    /\ Len(reps) >= 1
    /\ reps[1].kind = "SizeUpdate"
    /\ table.max_size = reps[1].idx
    /\ table.max_size > table.capacity

\* the second encode of the header: the one octet 0x80 | 62, and the table
\* as the first encode left it
SecondIsIndexed(r1, r2) ==
    /\ r2.dst = <<190>>
    /\ r2.reps = <<Rep("Indexed", 62, "", "", FALSE)>>
    /\ r2.table = r1.table

\* the header twice in succession: r1 is the first encode
InsertedThenIndexed(r1, h) ==
    /\ ~r1.panic
    /\ r1.reps[1].kind \in {"Inserted", "InsertedValue"}
    /\ r1.dst[1] \div 64 = 1
    /\ SecondIsIndexed(r1, Alone(r1.table, h))

----------------------------------------------------------------------------
(* The static table. *)

\* the header, not sensitive, that equals the pair at index i of the static table
StaticHeader(i) == Field(StaticTable[i][1], StaticTable[i][2], FALSE)

\* encode_header of the static pair at i: the one octet 0x80 | i, and the
\* table as it was
OneOctetIndexed(t, i, r) ==
    /\ ~r.panic
    /\ r.dst = <<128 + i>>
    /\ r.reps = <<Rep("Indexed", i, "", "", FALSE)>>
    /\ r.table = t

----------------------------------------------------------------------------
(* Eviction order and positional indices. *)

\* p is q, or q without some of its last elements
IsPrefix(p, q) == Len(p) <= Len(q) /\ p = SubSeq(q, 1, Len(p))

\* the representations of the headers: the last n of the call's
HeaderReps(rs, n) == SubSeq(rs, Len(rs) - n + 1, Len(rs))

\* the entries a call inserted, the newest first: hs are its headers and rs
\* their representations
RECURSIVE InsertedNewestFirst(_, _)
InsertedNewestFirst(hs, rs) ==
    IF hs = <<>> THEN <<>>
    ELSE InsertedNewestFirst(Tail(hs), Tail(rs))
             \o (IF Head(rs).kind \in {"Inserted", "InsertedValue"}
                 THEN <<Entry(Head(hs))>> ELSE <<>>)

\* the call r encoded hs from the table of this state: what is in the table
\* after it is what it inserted, the newest first, and then what was in the
\* table, without some of the oldest
OldestLeaveFirst(hs, r) ==
    ~r.panic =>
        IsPrefix(r.table.entries,
                 InsertedNewestFirst(hs, HeaderReps(r.reps, Len(hs)))
                     \o table.entries)

\* the entry at position k of the dynamic table is matched at index 61 + k
\* and written as that index
Positional ==
    \A k \in 1..Len(table.entries) :
        /\ FullIndex(table.entries,
                     Field(table.entries[k].name, table.entries[k].value, FALSE))
               = StaticLen + k
        /\ Alone(table, Field(table.entries[k].name, table.entries[k].value,
                              FALSE)).dst = <<128 + StaticLen + k>>

\* C12: eviction is oldest first and indices are positional: in every
\* reachable state the k-th newest entry is found at index 61 + k and written
\* as Indexed(61 + k), and an encode from the state leaves the entries it
\* inserted, the newest first, and then the entries of the state, without
\* some of the oldest.
C12_FifoPositional ==
    /\ Positional
    /\ \A hs \in Prefixes : OldestLeaveFirst(hs, EncodeCall(table, size_update, hs))

\* C12 witness: foo/baz was inserted with the name of the entry at 63, which
\* was the oldest and was evicted; the newer bar/foo stays, at 63.
C12_Witness ==
    /\ op = "encode"
    /\ headers = <<FooBaz>>
    /\ reps = <<Rep("InsertedValue", 63, "", "baz", FALSE)>>
    /\ table.entries = <<Entry(FooBaz), Entry(Field("bar", "foo", FALSE))>>

----------------------------------------------------------------------------
(* The name reference of InsertedValue. *)

\* the call r encoded h alone from the table of this state: an InsertedValue
\* names an entry that had the header's name in the table of this state, and
\* the octets written carry that index with a 6-bit prefix on 0x40
NameFromTableBefore(h, r) ==
    r.reps[1].kind = "InsertedValue" =>
        /\ r.reps[1].idx \in DOMAIN Composite(table.entries)
        /\ Composite(table.entries)[r.reps[1].idx].name = h.name
        /\ IsPrefix(encode_int(r.reps[1].idx, 6, 64).bytes, r.dst)
        /\ r.table.entries[1] = Entry(h)

\* C13: when a header is written as InsertedValue(i), i is the index of an
\* entry with the header's name in the table as it was before the header was
\* inserted and before the evictions the insertion causes, also when the
\* entry that gave the name is evicted by the insertion.
C13_NameIndexBeforeInsert ==
    \A h \in Headers : NameFromTableBefore(h, Alone(table, h))

\* C13 witness: foo/baz was written as 0x40 | 63, 0 with the name of foo/bar
\* at 63, and the insertion evicted foo/bar: no entry at 63 or after has the
\* name foo.
C13_Witness ==
    /\ op = "encode"
    /\ headers = <<FooBaz>>
    /\ Len(dst) >= 2 /\ dst[1] = 127 /\ dst[2] = 0
    /\ Len(table.entries) = 2
    /\ table.entries[1] = Entry(FooBaz)
    /\ table.entries[2].name # "foo"

----------------------------------------------------------------------------
(* Headers larger than max_size. *)

\* the call r encoded h alone from the table of this state: h is written
\* without indexing, with a name reference when the table has its name, and
\* the table is as it was
WrittenWithoutIndexing(h, name, r) ==
    /\ ~r.panic
    /\ r.table = table
    /\ IF name # 0
       THEN /\ r.reps = <<Rep("Name", name, "", h.value, FALSE)>>
            /\ IsPrefix(encode_int(name, 4, 0).bytes, r.dst)
       ELSE /\ r.reps = <<Rep("NotIndexed", 0, h.name, h.value, FALSE)>>
            /\ r.dst[1] = 0

----------------------------------------------------------------------------
(* content-length. *)

\* values of content-length that the static table does not have
ContentLengths == {"0", "1234", "12345"}

\* the call r encoded content-length: v alone from the table t: the octets
\* 0x0F, 13 of Name(28), then the value string, and the table as it was
NameTwentyEight(t, v, r) ==
    /\ ~r.panic
    /\ r.reps = <<Rep("Name", 28, "", v, FALSE)>>
    /\ r.dst = encode_str(v, <<15, 13>>)
    /\ r.table = t

\* the call r encoded content-length: v twice from the table t
TwiceNameTwentyEight(t, v, r) ==
    /\ ~r.panic
    /\ r.reps = <<Rep("Name", 28, "", v, FALSE), Rep("Name", 28, "", v, FALSE)>>
    /\ r.dst = encode_str(v, encode_str(v, <<15, 13>>) \o <<15, 13>>)
    /\ r.table = t

ContentLength(v) == Field("content-length", v, FALSE)

\* C15: in every reachable state a content-length header that is not
\* sensitive, with a value the static table does not have, is written as
\* Name(28), octets 0x0F, 13 and the Huffman value, and is not inserted, the
\* first time and the second; the value 1234 gives 0x0F, 13, 0x80 | 3 and
\* three more octets.
C15_ContentLengthByName ==
    /\ \A v \in ContentLengths :
           /\ NameTwentyEight(table, v, Alone(table, ContentLength(v)))
           /\ TwiceNameTwentyEight(table, v,
                  EncodeCall(table, NoUpdate, <<ContentLength(v), ContentLength(v)>>))
    /\ Len(Alone(table, ContentLength("1234")).dst) = 6
    /\ SubSeq(Alone(table, ContentLength("1234")).dst, 1, 3) = <<15, 13, 131>>

\* C15 witness: content-length: 1234 was encoded as 0x0F, 13, 0x80 | 3, ...
\* with room for its entry in the table, and the table does not have it.
C15_Witness ==
    /\ op = "encode"
    /\ headers = <<ContentLength("1234")>>
    /\ SubSeq(dst, 1, 3) = <<15, 13, 131>>
    /\ table.max_size = 128
    /\ Size(table) <= 76
    /\ table.entries # <<>>
    /\ \A k \in 1..Len(table.entries) : table.entries[k].name # "content-length"

----------------------------------------------------------------------------
(* The smallest staged size. *)

\* the smallest of the values staged since the last encode
MinStaged == Min({staged[i] : i \in DOMAIN staged})

\* the call r is the next encode: its first frame is a size update to v
FirstFrameCarries(v, r) ==
    /\ ~r.panic
    /\ r.reps # <<>>
    /\ r.reps[1] = SizeUpdateRep(v)
    /\ IsPrefix(encode_int(v, 5, 32).bytes, r.dst)
    /\ IsSizeUpdateOctet(r.dst, 1)
    /\ DecodeInt(r.dst, 1, 5).value = v

\* C16: when values were staged since the last encode and the smallest of
\* them is below max_size, the first size-update frame of the next encode
\* carries that smallest value.
C16_FirstFrameIsMin ==
    (staged # <<>> /\ MinStaged < table.max_size) =>
        \A hs \in {<<>>, <<FooBar>>} :
            FirstFrameCarries(MinStaged, EncodeCall(table, size_update, hs))

\* C16 witness: 128, 0 and 128 were staged at max_size 76 with entries in
\* the table, and the pending update is Two(0, 128).
C16_Witness ==
    /\ op = "update_max_size"
    /\ staged = <<128, 0, 128>>
    /\ table.max_size = 76
    /\ table.entries # <<>>
    /\ size_update = Two(0, 128)

----------------------------------------------------------------------------
(* Resizing to min and then to max. *)

\* the lengths of the prefixes of entries that take at most room octets
FittingLengths(entries, room) ==
    {k \in 0..Len(entries) : SumSizes(SubSeq(entries, 1, k)) <= room}

\* the newest entries whose sizes add up to at most room
NewestWithin(entries, room) ==
    SubSeq(entries, 1,
           CHOOSE k \in FittingLengths(entries, room) :
               \A j \in FittingLengths(entries, room) : j <= k)

\* the call r is encode(hs) with Two(min, max) pending: max_size is max, and
\* the table holds what the call inserted and then entries of before the
\* call, none but the newest that fit in min
SurvivorsFitMin(hs, min, max, r) ==
    /\ ~r.panic
    /\ r.table.max_size = max
    /\ IsPrefix(r.table.entries,
                InsertedNewestFirst(hs, HeaderReps(r.reps, Len(hs)))
                    \o NewestWithin(table.entries, min))
    /\ hs = <<>> => r.table.entries = NewestWithin(table.entries, min)
    /\ min = 0 /\ hs = <<>> => r.table.entries = <<>>

\* C17: an encode with Two(min, max) pending resizes the table to min and
\* then to max before the headers: the entries of before the call that are
\* left are the newest whose sizes add up to at most min, none when min is 0,
\* whatever max is.
C17_ResizedThroughMin ==
    size_update.tag = "Two" =>
        \A hs \in Prefixes :
            SurvivorsFitMin(hs, size_update.a, size_update.b,
                            EncodeCall(table, size_update, hs))

\* C17 witness: Two(76, 128) is pending at max_size 128 with three entries,
\* 114 octets, in the table: all fit in max, two fit in min.
C17_Witness ==
    /\ op = "update_max_size"
    /\ size_update = Two(76, 128)
    /\ table.max_size = 128
    /\ Len(table.entries) = 3
    /\ Size(table) = 114

----------------------------------------------------------------------------
(* The range of encode_int. *)

\* encode() right after update_max_size(v) on a default encoder
EncodeAfterUpdate(v) ==
    EncodeCall(TableNew(4096, 0), NextSizeUpdate(NoUpdate, 4096, v), <<>>)

\* C18 as claimed: encode_int panics, writing nothing, exactly when the value
\* is above 0x0FFFFFFF, for every prefix width, and encode after
\* update_max_size(v) panics for every v above 0x0FFFFFFF.
C18_PanicsAboveMax ==
    [][ op' = "encode_int" =>
            /\ panicked' <=> (args[1] > MaxIntRest)
            /\ panicked' => dst' = dst
            /\ \A v \in IntValues :
                   v > MaxIntRest => EncodeAfterUpdate(v).panic
      ]_vars

\* C18 as amended: encode_int panics, writing nothing, exactly when the value
\* is not below 2^N - 1 and what is left of it after 2^N - 1 is taken off is
\* above 0x0FFFFFFF; the values from 0x0FFFFFFF + 1 to 0x0FFFFFFF + 2^N - 1
\* are encoded.  encode after update_max_size(v) panics exactly when v - 31
\* is above 0x0FFFFFFF.
C18_PanicsWhenRestAboveMax ==
    [][ op' = "encode_int" =>
            /\ panicked' <=> (args[1] - (Pow2(args[2]) - 1) > MaxIntRest)
            /\ panicked' => dst' = dst
            /\ ~panicked' => Len(dst') > Len(dst)
            /\ \A v \in IntValues :
                   EncodeAfterUpdate(v).panic <=> (v - 31 > MaxIntRest)
      ]_vars

\* C18 witness: encode_int(0x10000000, 5, 0x20) returned and wrote five
\* octets to an empty destination.
C18_Witness ==
    /\ op = "encode_int"
    /\ args = <<268435456, 5, 32>>
    /\ ~panicked
    /\ Len(dst) = 5
    /\ dst[1] = 63

----------------------------------------------------------------------------
(* The form of the prefixed integer. *)

RECURSIVE Pow128(_)
Pow128(k) == IF k = 0 THEN 1 ELSE 128 * Pow128(k - 1)

\* w, after its first octet, is rest in 7-bit groups, the least significant
\* first, every octet but the last with the high bit set
SevenBitGroups(w, rest) ==
    /\ Len(w) >= 2
    /\ \A k \in 2..Len(w) :
           /\ w[k] % 128 = (rest \div Pow128(k - 2)) % 128
           /\ (w[k] >= 128) <=> (k < Len(w))
    /\ rest < Pow128(Len(w) - 1)

\* w is what RFC 7541 5.1 writes for v with an n-bit prefix on the octet b,
\* and reads back as v
PrefixedInteger(w, v, n, b) ==
    /\ w # <<>>
    /\ w[1] \div Pow2(n) = b \div Pow2(n)
    /\ IF v < Pow2(n) - 1
       THEN w = <<b + v>>
       ELSE /\ w[1] = b + Pow2(n) - 1
            /\ SevenBitGroups(w, v - (Pow2(n) - 1))
    /\ DecodeInt(w, 1, n).value = v
    /\ DecodeInt(w, 1, n).next = Len(w) + 1

\* C19: for every prefix width 4..7, every base with its low bits zero and
\* every value encode_int accepts, the octets it appends are B | V when
\* V < 2^N - 1, and else B | (2^N - 1) and the 7-bit groups of V - (2^N - 1),
\* least significant first, all but the last with the high bit set; they
\* decode to V, the high 8 - N bits of the first octet are those of B, and
\* what the destination held stays.
C19_IntRoundTrip ==
    [][ (op' = "encode_int" /\ ~panicked') =>
            /\ IsPrefix(dst, dst')
            /\ PrefixedInteger(SubSeq(dst', Len(dst) + 1, Len(dst')),
                               args[1], args[2], args[3])
      ]_vars

\* C19 witness: encode_int(100, 5, 0x20) appended 0x20 | 31, 69 to a
\* destination that held three octets.
C19_Witness ==
    /\ op = "encode_int"
    /\ args = <<100, 5, 32>>
    /\ dst = <<130, 255, 7, 63, 69>>

----------------------------------------------------------------------------
(* The string encode_str writes. *)

\* w is the 7-bit-prefix integer Len(hb) on 0x80, ending before position
\* body, and then the octets hb
HeadThenHuffman(w, hb, body) ==
    /\ w[1] >= 128
    /\ DecodeInt(w, 1, 7).value = Len(hb)
    /\ PrefixedInteger(SubSeq(w, 1, body - 1), Len(hb), 7, 128)
    /\ SubSeq(w, body, Len(w)) = hb
    /\ Len(w) = body - 1 + Len(hb)

\* w is what encode_str appends for the string s
HuffmanString(w, s) ==
    IF s = "" THEN w = <<0>>
    ELSE /\ w # <<>>
         /\ HeadThenHuffman(w, huffman_encode(s), DecodeInt(w, 1, 7).next)

\* C20: after encode_str(s, dst) the destination is what it held, unchanged,
\* then the 7-bit-prefix integer H on 0x80, then the H Huffman octets of s in
\* their order, for H below 127 and for H of 127 and more; the empty string
\* appends the octet 0x00.
C20_StringLayout ==
    [][ op' = "encode_str" =>
            /\ IsPrefix(dst, dst')
            /\ HuffmanString(SubSeq(dst', Len(dst) + 1, Len(dst')), args[1])
      ]_vars

\* C20 witness: a string of 132 symbols with 8-bit codes was appended to a
\* destination of three octets: the head 0xFF, 5 and then the 132 octets.
C20_Witness ==
    /\ op = "encode_str"
    /\ args = <<Repeat("&*,;XZ", 22)>>
    /\ Len(dst) = 3 + 2 + 132
    /\ SubSeq(dst, 1, 9) = <<130, 255, 7, 255, 5, 248, 249, 250, 251>>
    /\ dst[Len(dst)] = 253

====
